---- MODULE Spec2Model ----
(***************************************************************************)
(* LocalStorageVec<T, N> (4-traits-and-generics/1-local-storage-vec):      *)
(* a vector that keeps up to N elements in an inline array (Stack) and     *)
(* moves to a Vec (Heap) when a push finds the array full.                 *)
(* RingBuffer (3-advanced-syntax/4-ring-buffer): a byte queue kept in a    *)
(* circular buffer of fixed size.                                          *)
(* eval (3-advanced-syntax/5-boxed-data): the evaluator of an expression   *)
(* tree over i64, with Option<i64> as its result.                          *)
(* The exercises are separate programs: each has its own specification,    *)
(* in which the state of the other programs does not move.                 *)
(***************************************************************************)
EXTENDS Integers, Sequences, FiniteSets

\* ------------------------------------------------------------------ bounds
MaxN == 3
MaxVal == 1
MaxK == 2
MaxOps == 4
MaxSize == 3
MaxByte == 1
MaxRbOps == 7
MaxBuild == 2
IntBits == 4

\* ------------------------------------------------------- values and helpers
\* T::default() for the integer element types the tests use
Default == 0

Values == 0..MaxVal

\* Option<T>
None == <<>>

Some(x) == <<x>>

\* Vec<T> / [T; K] inputs of the From constructors
Inputs == UNION {[1..k -> Values] : k \in 0..MaxK}

\* &buf[..n]
Slice(buf, n) == SubSeq(buf, 1, n)

VARIABLES
    N,      \* const N: usize, the inline capacity of the container
    self,   \* the LocalStorageVec value: Stack { buf, len } or Heap(v)
    ctor,   \* how the container was built: "new", "from_array", "from_vec"
    input,  \* the array or Vec given to from(); <<>> for new()
    ops,    \* the push / pop / clear calls made so far, in order
    model,  \* the values pushed (or given to from()) and not yet removed
    ret,    \* what the last call returned: Some(x) or None
    migs,   \* the positions in ops of the pushes that went from Stack to Heap
    queue,  \* the RingBuffer value: data, start, end
    rop,    \* the RingBuffer method called last ("new" after construction)
    rret,   \* what that call returned
    pending, \* the bytes whose write returned true and that no read returned yet
    rn,     \* the number of RingBuffer calls made so far
    expr,   \* the Expr given to eval
    var,    \* the value of Var given to eval
    checks, \* whether the build has overflow checks (debug) or not (release)
    built,  \* the number of constructor calls that built expr
    result  \* what eval did: not called yet, returned an Option, or panicked

lsv_vars == <<N, self, ctor, input, ops, model, ret, migs>>

rb_vars == <<queue, rop, rret, pending, rn>>

ev_vars == <<expr, var, checks, built, result>>

vars == <<lsv_vars, rb_vars, ev_vars>>

\* ------------------------------------------------------- the enum variants
Stack(b, l) == [tag |-> "Stack", buf |-> b, len |-> l]

Heap(vec) == [tag |-> "Heap", v |-> vec]

\* LocalStorageVec::new
new(n) == Stack([i \in 1..n |-> Default], 0)

\* LocalStorageVec::len
len(s) == IF s.tag = "Stack" THEN s.len ELSE Len(s.v)

\* LocalStorageVec::push, a mutant: the migration starts from an empty Vec
push_drop(s, n, value) ==
    IF s.tag = "Stack" /\ s.len < n
    THEN Stack([s.buf EXCEPT ![s.len + 1] = value], s.len + 1)
    ELSE Heap(Append(IF s.tag = "Stack" THEN <<>> ELSE s.v, value))

\* LocalStorageVec::push, a mutant: the guard is off by one (len + 1 < N)
push_early(s, n, value) ==
    IF s.tag = "Stack" /\ s.len + 1 < n
    THEN Stack([s.buf EXCEPT ![s.len + 1] = value], s.len + 1)
    ELSE Heap(Append(IF s.tag = "Stack" THEN Slice(s.buf, s.len) ELSE s.v, value))

\* LocalStorageVec::push, a mutant: a full inline buffer drops the value
\* instead of migrating
push_full(s, n, value) ==
    IF s.tag = "Stack" /\ s.len < n
    THEN Stack([s.buf EXCEPT ![s.len + 1] = value], s.len + 1)
    ELSE IF s.tag = "Stack" THEN s ELSE Heap(Append(s.v, value))

\* LocalStorageVec::push
push(s, n, value) ==
    IF s.tag = "Stack" /\ s.len < n
    THEN Stack([s.buf EXCEPT ![s.len + 1] = value], s.len + 1)
    ELSE LET heap_vec == IF s.tag = "Stack" THEN Slice(s.buf, s.len) ELSE s.v
         IN  Heap(Append(heap_vec, value))

\* LocalStorageVec::pop, a mutant: a Heap whose length fell to N or below
\* is moved back into the inline buffer
pop_shrink(s, n) ==
    IF s.tag = "Stack" /\ s.len > 0
    THEN [st |-> Stack([s.buf EXCEPT ![s.len] = Default], s.len - 1),
          ret |-> Some(s.buf[s.len])]
    ELSE IF s.tag = "Heap"
    THEN IF s.v = <<>>
         THEN [st |-> new(n), ret |-> None]
         ELSE LET rest == Slice(s.v, Len(s.v) - 1)
              IN  [st |-> IF Len(rest) <= n
                          THEN Stack([i \in 1..n |-> IF i <= Len(rest) THEN rest[i] ELSE Default],
                                     Len(rest))
                          ELSE Heap(rest),
                   ret |-> Some(s.v[Len(s.v)])]
    ELSE [st |-> s, ret |-> None]

\* LocalStorageVec::pop, a mutant: an empty Heap answers Some(default)
pop_default(s, n) ==
    IF s.tag = "Stack" /\ s.len > 0
    THEN [st |-> Stack([s.buf EXCEPT ![s.len] = Default], s.len - 1),
          ret |-> Some(s.buf[s.len])]
    ELSE IF s.tag = "Heap"
    THEN IF s.v = <<>>
         THEN [st |-> s, ret |-> Some(Default)]
         ELSE [st |-> Heap(Slice(s.v, Len(s.v) - 1)), ret |-> Some(s.v[Len(s.v)])]
    ELSE [st |-> s, ret |-> None]

\* LocalStorageVec::pop, a mutant: a Heap gives up its first element
\* (v.remove(0)) instead of its last
pop_first(s, n) ==
    IF s.tag = "Stack" /\ s.len > 0
    THEN [st |-> Stack([s.buf EXCEPT ![s.len] = Default], s.len - 1),
          ret |-> Some(s.buf[s.len])]
    ELSE IF s.tag = "Heap"
    THEN IF s.v = <<>>
         THEN [st |-> s, ret |-> None]
         ELSE [st |-> Heap(Tail(s.v)), ret |-> Some(s.v[1])]
    ELSE [st |-> s, ret |-> None]

\* LocalStorageVec::pop, a mutant: the vacated slot keeps its value
\* (buf[*len].clone() instead of mem::replace)
pop_stale(s, n) ==
    IF s.tag = "Stack" /\ s.len > 0
    THEN [st |-> Stack(s.buf, s.len - 1), ret |-> Some(s.buf[s.len])]
    ELSE IF s.tag = "Heap"
    THEN IF s.v = <<>>
         THEN [st |-> s, ret |-> None]
         ELSE [st |-> Heap(Slice(s.v, Len(s.v) - 1)), ret |-> Some(s.v[Len(s.v)])]
    ELSE [st |-> s, ret |-> None]

\* LocalStorageVec::pop: the state it leaves (st) and the value it returns (ret)
pop(s, n) ==
    IF s.tag = "Stack" /\ s.len > 0
    THEN [st |-> Stack([s.buf EXCEPT ![s.len] = Default], s.len - 1),
          ret |-> Some(s.buf[s.len])]
    ELSE IF s.tag = "Heap"
    THEN IF s.v = <<>>
         THEN [st |-> s, ret |-> None]
         ELSE [st |-> Heap(Slice(s.v, Len(s.v) - 1)), ret |-> Some(s.v[Len(s.v)])]
    ELSE [st |-> s, ret |-> None]

\* LocalStorageVec::clear, a mutant: a Heap is emptied in place (v.clear())
clear_in_place(s, n) == IF s.tag = "Heap" THEN Heap(<<>>) ELSE new(n)

\* LocalStorageVec::clear
clear(s, n) == new(n)

\* From<[T; N]>, a mutant: the comparison is strict (N < M)
from_array_strict(array, M) ==
    IF Len(array) < M
    THEN Stack([i \in 1..M |-> IF i <= Len(array) THEN array[i] ELSE Default], Len(array))
    ELSE Heap(array)

\* From<[T; N]>, a mutant: len is set to the capacity M instead of N
from_array_cap(array, M) ==
    IF Len(array) <= M
    THEN Stack([i \in 1..M |-> IF i <= Len(array) THEN array[i] ELSE Default], M)
    ELSE Heap(array)

\* impl From<[T; N]> for LocalStorageVec<T, M>
from_array(array, M) ==
    IF Len(array) <= M
    THEN Stack([i \in 1..M |-> IF i <= Len(array) THEN array[i] ELSE Default], Len(array))
    ELSE Heap(array)

\* From<Vec<T>>, a mutant: the Vec is always kept on the heap
from_vec_heap(vec, n) == Heap(vec)

\* From<Vec<T>>, a mutant: the length test is left out, the Vec always goes
\* to the inline buffer (as much of it as fits)
from_vec_inline(vec, n) ==
    Stack([i \in 1..n |-> IF i <= Len(vec) THEN vec[i] ELSE Default], Len(vec))

\* impl From<Vec<T>> for LocalStorageVec<T, N>
from_vec(vec, n) ==
    IF Len(vec) <= n
    THEN LET buf == [i \in 1..n |-> Default]
         IN  Stack([i \in 1..n |-> IF i <= Len(vec) THEN vec[i] ELSE buf[i]], Len(vec))
    ELSE Heap(vec)

\* ------------------------------------------------------------- RingBuffer
\* u8 values written to the queue
Bytes == 0..MaxByte

\* struct RingBuffer
RingBuffer(d, s, e) == [data |-> d, start |-> s, end |-> e]

\* make_box: a boxed slice of reqsize zeroes (data[i] of the code is data[i + 1])
make_box(reqsize) == [i \in 1..reqsize |-> 0]

\* RingBuffer::new
RingBuffer_new(size) == RingBuffer(make_box(size), 0, 0)

\* RingBuffer::read, a mutant: start is not advanced (the body of peek)
read_stay(q) ==
    IF q.start = q.end
    THEN [q |-> q, ret |-> None]
    ELSE [q |-> q, ret |-> Some(q.data[q.start + 1])]

\* RingBuffer::read: the queue it leaves (q) and the value it returns (ret)
read(q) ==
    IF q.start = q.end
    THEN [q |-> q, ret |-> None]
    ELSE LET value == q.data[q.start + 1]
         IN  [q |-> [q EXCEPT !.start = (q.start + 1) % Len(q.data)],
              ret |-> Some(value)]

\* RingBuffer::write, a mutant: the value is stored at the next position
\* (data[pos]) before the fullness test
write_at_pos(q, value) ==
    LET pos == (q.end + 1) % Len(q.data)
        d == [q.data EXCEPT ![pos + 1] = value]
    IN  IF pos = q.start
        THEN [q |-> [q EXCEPT !.data = d], ret |-> FALSE]
        ELSE [q |-> [q EXCEPT !.data = d, !.end = pos], ret |-> TRUE]

\* RingBuffer::write: the queue it leaves (q) and the value it returns (ret)
write(q, value) ==
    LET d == [q.data EXCEPT ![q.end + 1] = value]
        pos == (q.end + 1) % Len(q.data)
    IN  IF pos = q.start
        THEN [q |-> [q EXCEPT !.data = d], ret |-> FALSE]
        ELSE [q |-> [q EXCEPT !.data = d, !.end = pos], ret |-> TRUE]

\* RingBuffer::has_room, a mutant: room is judged by the queue being empty
has_room_empty(q) == q.end = q.start

\* RingBuffer::has_room
has_room(q) == (q.end + 1) % Len(q.data) # q.start

\* RingBuffer::peek, a mutant: the body of read, which advances start
peek_consume(q) ==
    IF q.start = q.end
    THEN [q |-> q, ret |-> None]
    ELSE [q |-> [q EXCEPT !.start = (q.start + 1) % Len(q.data)],
          ret |-> Some(q.data[q.start + 1])]

\* RingBuffer::peek: the queue it leaves (q) and the value it returns (ret)
peek(q) ==
    IF q.start = q.end
    THEN [q |-> q, ret |-> None]
    ELSE [q |-> q, ret |-> Some(q.data[q.start + 1])]

\* impl Iterator for RingBuffer: the values that at most k calls of next()
\* (read) return, up to the first None
RECURSIVE next(_, _)
next(q, k) ==
    LET r == read(q)
    IN  IF k = 0 \/ r.ret = None THEN <<>> ELSE <<r.ret[1]>> \o next(r.q, k - 1)

\* ------------------------------------------------------------------- eval
\* i64, scaled to IntBits bits: i64::MIN and i64::MAX
MinInt == -(2 ^ (IntBits - 1))

MaxInt == 2 ^ (IntBits - 1) - 1

\* two's complement wrap-around of an arithmetic result
wrap(x) == ((x - MinInt) % (2 ^ IntBits)) + MinInt

\* the / of i64: the quotient is truncated towards zero
tdiv(a, b) ==
    LET abs(x) == IF x < 0 THEN -x ELSE x
        quot == abs(a) \div abs(b)
    IN  IF (a < 0) # (b < 0) THEN -quot ELSE quot

\* enum Expr
Const(k) == [tag |-> "Const", k |-> k]

Var == [tag |-> "Var"]

Binary(op, x, y) == [tag |-> op, lhs |-> x, rhs |-> y]

add(x, y) == Binary("Add", x, y)

sub(x, y) == Binary("Sub", x, y)

mul(x, y) == Binary("Mul", x, y)

div(x, y) == Binary("Div", x, y)

Summation(exprs) == [tag |-> "Summation", exprs |-> exprs]

\* what a call of eval does: it returns opt, or it panics
Returns(opt) == [panic |-> FALSE, opt |-> opt]

Panics == [panic |-> TRUE, opt |-> None]

\* the call returned Some(_): evaluation goes on after the ? operator
IsSome(o) == ~o.panic /\ o.opt # None

\* +, -, * of i64: a result out of range panics in a build with overflow
\* checks and wraps around in a build without them
arith(x, chk) ==
    IF MinInt <= x /\ x <= MaxInt
    THEN Returns(Some(x))
    ELSE IF chk THEN Panics ELSE Returns(Some(wrap(x)))

RECURSIVE eval(_, _, _)
RECURSIVE sum(_, _, _, _)
\* eval
eval(e, v, chk) ==
    IF e.tag = "Const" THEN Returns(Some(e.k))
    ELSE IF e.tag = "Var" THEN Returns(Some(v))
    ELSE IF e.tag \in {"Add", "Sub", "Mul"}
    THEN LET l == eval(e.lhs, v, chk)
         IN  IF ~IsSome(l) THEN l
             ELSE LET r == eval(e.rhs, v, chk)
                  IN  IF ~IsSome(r) THEN r
                      ELSE IF e.tag = "Add" THEN arith(l.opt[1] + r.opt[1], chk)
                      ELSE IF e.tag = "Sub" THEN arith(l.opt[1] - r.opt[1], chk)
                      ELSE arith(l.opt[1] * r.opt[1], chk)
    ELSE IF e.tag = "Div"
    THEN LET d == eval(e.rhs, v, chk)
         IN  IF ~IsSome(d) THEN d
             ELSE LET divisor == d.opt[1]
                  IN  IF divisor = 0
                      THEN Returns(None)
                      ELSE LET l == eval(e.lhs, v, chk)
                           IN  IF ~IsSome(l) THEN l
                               ELSE IF l.opt[1] = MinInt /\ divisor = -1
                               THEN Panics
                               ELSE Returns(Some(tdiv(l.opt[1], divisor)))
    ELSE sum(e.exprs, 0, v, chk)

\* eval, the Summation arm: for e in exprs { acc += eval(e, var)?; } Some(acc)
sum(exprs, acc, v, chk) ==
    IF exprs = <<>>
    THEN Returns(Some(acc))
    ELSE LET x == eval(Head(exprs), v, chk)
         IN  IF ~IsSome(x) THEN x
             ELSE LET a == arith(acc + x.opt[1], chk)
                  IN  IF a.panic THEN a ELSE sum(Tail(exprs), a.opt[1], v, chk)

\* the constants and Var, the leaves of the expressions built
Leaves == {Const(k) : k \in {MinInt, -1, 0, 1}} \cup {Var}

\* eval was not called yet
NotCalled == [panic |-> FALSE, opt |-> <<0, 0>>]

\* the LocalStorageVec program is not running
LsvIdle ==
    /\ N = 0
    /\ self = new(0)
    /\ ctor = "new"
    /\ input = <<>>
    /\ ops = <<>>
    /\ model = <<>>
    /\ ret = None
    /\ migs = <<>>

\* the RingBuffer program is not running
RbIdle ==
    /\ queue = RingBuffer_new(0)
    /\ rop = "new"
    /\ rret = None
    /\ pending = <<>>
    /\ rn = 0

\* the evaluator program is not running
EvIdle ==
    /\ expr = Const(0)
    /\ var = 0
    /\ checks = FALSE
    /\ built = 0
    /\ result = NotCalled

\* main / test_cases: an expression is built, starting from a leaf, for a
\* value of Var, in a build with or without overflow checks
InitEval ==
    /\ expr \in Leaves
    /\ var \in {0, 2}
    /\ checks \in BOOLEAN
    /\ built = 0
    /\ result = NotCalled
    /\ LsvIdle
    /\ RbIdle

\* add(x, y), sub(x, y), mul(x, y), div(x, y) with expr as one argument
BuildBinary ==
    \E op \in {"Add", "Sub", "Mul", "Div"}, leaf \in Leaves, left \in BOOLEAN :
        /\ result = NotCalled
        /\ built < MaxBuild
        /\ expr' = IF left THEN Binary(op, expr, leaf) ELSE Binary(op, leaf, expr)
        /\ built' = built + 1
        /\ UNCHANGED <<var, checks, result>>
        /\ UNCHANGED <<lsv_vars, rb_vars>>

\* Summation(vec![...]) with expr as one element
BuildSummation ==
    \E exprs \in {<<expr>>} \cup {<<expr, leaf>> : leaf \in Leaves}
                            \cup {<<leaf, expr>> : leaf \in Leaves} :
        /\ result = NotCalled
        /\ built < MaxBuild
        /\ expr' = Summation(exprs)
        /\ built' = built + 1
        /\ UNCHANGED <<var, checks, result>>
        /\ UNCHANGED <<lsv_vars, rb_vars>>

\* eval(&expr, var)
Eval ==
    /\ result = NotCalled
    /\ result' = eval(expr, var, checks)
    /\ UNCHANGED <<expr, var, checks, built>>
    /\ UNCHANGED <<lsv_vars, rb_vars>>

NextEval == BuildBinary \/ BuildSummation \/ Eval

SpecEval == InitEval /\ [][NextEval]_vars

\* let mut queue = RingBuffer::new(size);
InitRB ==
    /\ \E size \in 0..MaxSize : queue = RingBuffer_new(size)
    /\ rop = "new"
    /\ rret = None
    /\ pending = <<>>
    /\ rn = 0
    /\ LsvIdle
    /\ EvIdle

\* a call can be made: the program has not panicked
RbLive == rop # "panic" /\ rn < MaxRbOps

\* queue.read()
Read ==
    /\ RbLive
    /\ queue' = read(queue).q
    /\ rret' = read(queue).ret
    /\ rop' = "read"
    /\ pending' = IF pending = <<>> THEN pending ELSE Tail(pending)
    /\ rn' = rn + 1
    /\ UNCHANGED <<lsv_vars, ev_vars>>

\* queue.write(value); with a buffer of size 0, data[end] is out of bounds
\* and the call panics
Write ==
    \E value \in Bytes :
        /\ RbLive
        /\ IF Len(queue.data) = 0
           THEN /\ rop' = "panic"
                /\ UNCHANGED <<queue, rret, pending>>
           ELSE /\ queue' = write(queue, value).q
                /\ rret' = write(queue, value).ret
                /\ rop' = "write"
                /\ pending' = IF write(queue, value).ret
                              THEN Append(pending, value)
                              ELSE pending
        /\ rn' = rn + 1
        /\ UNCHANGED <<lsv_vars, ev_vars>>

\* queue.has_room(); with a buffer of size 0, the remainder by data.len()
\* panics
HasRoom ==
    /\ RbLive
    /\ IF Len(queue.data) = 0
       THEN /\ rop' = "panic"
            /\ UNCHANGED rret
       ELSE /\ rret' = has_room(queue)
            /\ rop' = "has_room"
    /\ rn' = rn + 1
    /\ UNCHANGED <<queue, pending>>
    /\ UNCHANGED <<lsv_vars, ev_vars>>

\* queue.peek()
Peek ==
    /\ RbLive
    /\ queue' = peek(queue).q
    /\ rret' = peek(queue).ret
    /\ rop' = "peek"
    /\ rn' = rn + 1
    /\ UNCHANGED pending
    /\ UNCHANGED <<lsv_vars, ev_vars>>

NextRB == Read \/ Write \/ HasRoom \/ Peek

SpecRB == InitRB /\ [][NextRB]_vars

\* ------------------------------------------------------------------ actions
\* let mut vec: LocalStorageVec<_, N> = LocalStorageVec::new();
Init ==
    /\ N \in 0..MaxN
    /\ self = new(N)
    /\ ctor = "new"
    /\ input = <<>>
    /\ ops = <<>>
    /\ model = <<>>
    /\ ret = None
    /\ migs = <<>>
    /\ RbIdle
    /\ EvIdle

\* the container has just been declared and nothing was done with it
Fresh == ctor = "new" /\ ops = <<>>

\* let vec: LocalStorageVec<_, N> = LocalStorageVec::from([...]);
FromArray ==
    \E array \in Inputs :
        /\ Fresh
        /\ self' = from_array(array, N)
        /\ ctor' = "from_array"
        /\ input' = array
        /\ model' = array
        /\ UNCHANGED <<N, ops, ret, migs>>
        /\ UNCHANGED <<rb_vars, ev_vars>>

\* let vec: LocalStorageVec<_, N> = LocalStorageVec::from(vec![...]);
FromVec ==
    \E vec \in Inputs :
        /\ Fresh
        /\ self' = from_vec(vec, N)
        /\ ctor' = "from_vec"
        /\ input' = vec
        /\ model' = vec
        /\ UNCHANGED <<N, ops, ret, migs>>
        /\ UNCHANGED <<rb_vars, ev_vars>>

\* vec.push(value)
Push ==
    \E value \in Values :
        /\ Len(ops) < MaxOps
        /\ self' = push(self, N, value)
        /\ ops' = Append(ops, "push")
        /\ model' = Append(model, value)
        /\ ret' = None
        /\ migs' = IF self.tag = "Stack" /\ push(self, N, value).tag = "Heap"
                   THEN Append(migs, Len(ops) + 1)
                   ELSE migs
        /\ UNCHANGED <<N, ctor, input>>
        /\ UNCHANGED <<rb_vars, ev_vars>>

\* vec.pop()
Pop ==
    /\ Len(ops) < MaxOps
    /\ self' = pop(self, N).st
    /\ ret' = pop(self, N).ret
    /\ ops' = Append(ops, "pop")
    /\ model' = IF model = <<>> THEN model ELSE Slice(model, Len(model) - 1)
    /\ UNCHANGED <<N, ctor, input, migs>>
    /\ UNCHANGED <<rb_vars, ev_vars>>

\* vec.clear()
Clear ==
    /\ Len(ops) < MaxOps
    /\ self' = clear(self, N)
    /\ ops' = Append(ops, "clear")
    /\ model' = <<>>
    /\ ret' = None
    /\ UNCHANGED <<N, ctor, input, migs>>
    /\ UNCHANGED <<rb_vars, ev_vars>>

Next == FromArray \/ FromVec \/ Push \/ Pop \/ Clear

Spec == Init /\ [][Next]_vars

\* --------------------------------------------------------- derived notions
TypeOK ==
    /\ N \in 0..MaxN
    /\ self.tag \in {"Stack", "Heap"}
    /\ ctor \in {"new", "from_array", "from_vec"}
    /\ Len(ops) <= MaxOps

Last(s) == s[Len(s)]

RECURSIVE Reverse(_)
Reverse(s) == IF s = <<>> THEN <<>> ELSE Append(Reverse(Tail(s)), Head(s))

\* while let Some(x) = vec.pop() { out.push(x) }: the values repeated pops return
RECURSIVE drain(_, _)
drain(s, n) ==
    LET r == pop(s, n)
    IN  IF r.ret = None THEN <<>> ELSE <<r.ret[1]>> \o drain(r.st, n)

\* the step is a call of the operation called name
IsOp(name) == ops' = Append(ops, name)

\* only push was called since construction
OnlyPushes == \A i \in 1..Len(ops) : ops[i] = "push"

\* the step is a push that leaves the Stack variant for the Heap variant
Migrates == IsOp("push") /\ self.tag = "Stack" /\ self'.tag = "Heap"

\* ------------------------------------------------------------------ claims

\* C1: on a container created by new(), whatever pushes, pops and clears were
\* applied, popping repeatedly returns the elements pushed and not yet
\* removed in reverse order of insertion; the push that migrates Stack to
\* Heap keeps the elements of positions [0, len) in place and puts the new
\* value last.
C1_LIFO ==
    /\ [](ctor = "new" => drain(self, N) = Reverse(model))
    /\ [][Migrates => self'.v = Append(Slice(self.buf, self.len), Last(model'))]_vars

\* C1 witness: a migrated container holding distinct values, inline ones included
C1_Witness ==
    /\ ctor = "new"
    /\ self.tag = "Heap"
    /\ N >= 1
    /\ Last(ops) = "push"
    /\ migs # <<>>
    /\ Last(migs) = Len(ops)
    /\ self.v[1] # self.v[Len(self.v)]

\* C2: after K <= N pushes and nothing else on a container created by
\* new(), the container is in the Stack variant and len() = K.
C2_InlineWhileFits ==
    (ctor = "new" /\ OnlyPushes /\ Len(ops) <= N)
        => (self.tag = "Stack" /\ len(self) = Len(ops))

\* C2 witness: exactly N >= 2 pushes were made
C2_Witness ==
    /\ ctor = "new"
    /\ OnlyPushes
    /\ N >= 2
    /\ Len(ops) = N
    /\ self.tag = "Stack"

\* C3: after K > N pushes and nothing else on a container created by new(),
\* the container is in the Heap variant with len() = K, and the one switch
\* from Stack to Heap was made by push number N + 1 (push number 1 if N = 0).
C3_OverflowAfterN ==
    (ctor = "new" /\ OnlyPushes /\ Len(ops) > N)
        => (self.tag = "Heap" /\ len(self) = Len(ops) /\ migs = <<N + 1>>)

\* C3 witness: N = 0 and the first push has been made
C3_Witness ==
    /\ ctor = "new"
    /\ N = 0
    /\ ops = <<"push">>
    /\ self.tag = "Heap"

\* C4: a step that takes the container from Heap to Stack is a clear();
\* no push and no pop does it, whatever len() they leave.
C4_NoRevert ==
    [][(self.tag = "Heap" /\ self'.tag = "Stack") => IsOp("clear")]_vars

\* C4 witness: pops emptied a Heap container of capacity N >= 1, still Heap
C4_Witness ==
    /\ self.tag = "Heap"
    /\ N >= 1
    /\ ops # <<>>
    /\ Last(ops) = "pop"
    /\ len(self) = 0

\* C5 as stated: the Stack-to-Heap migration happens at most once in the
\* lifetime of a container.
C5_MigratesOnce == Len(migs) <= 1

\* C5 amended: between two migrations of one container there is a clear().
C5_MigratesOncePerClear ==
    \A i, j \in 1..Len(migs) :
        i < j => \E k \in (migs[i] + 1)..(migs[j] - 1) : ops[k] = "clear"

\* C5 witness: one container has migrated twice
C5_Witness == Len(migs) = 2 /\ self.tag = "Heap"

\* C6: clear() leaves the Stack variant with len() = 0 whatever the state it
\* is called in, and a second clear() changes nothing.
C6_Clear ==
    [][IsOp("clear") =>
          /\ self'.tag = "Stack"
          /\ len(self') = 0
          /\ clear(self', N) = self']_vars

\* C6 witness: clear() was called twice in a row on a container that a push
\* had just migrated to the Heap
C6_Witness ==
    /\ Len(ops) >= 3
    /\ ops[Len(ops)] = "clear"
    /\ ops[Len(ops) - 1] = "clear"
    /\ migs # <<>>
    /\ Last(migs) = Len(ops) - 2
    /\ self.tag = "Stack"

\* C7: pop() on a container with len() = 0 returns None, in the Stack
\* variant and in the Heap variant, and leaves the variant and len() as
\* they were.
C7_PopEmpty ==
    [][(IsOp("pop") /\ len(self) = 0) =>
          /\ ret' = None
          /\ self'.tag = self.tag
          /\ len(self') = len(self)]_vars

\* C7 witness: pop() was called on an empty Heap (the pop before it removed
\* the last element)
C7_Witness ==
    /\ Len(ops) >= 3
    /\ ops[Len(ops)] = "pop"
    /\ ops[Len(ops) - 1] = "pop"
    /\ migs # <<>>
    /\ Last(migs) = Len(ops) - 2
    /\ N = 0
    /\ self = Heap(<<>>)
    /\ ret = None

C9_FromVecIsHeap ==
    (ctor = "from_vec" /\ ops = <<>>) => self.tag = "Heap"

\* C10: from([T; K]) gives the Stack variant with len = K and the K elements
\* at positions [0, K) in input order when K <= N, and the Heap variant
\* holding the K elements in input order when K > N.
C10_FromArray ==
    (ctor = "from_array" /\ ops = <<>>) =>
        IF Len(input) <= N
        THEN /\ self.tag = "Stack"
             /\ self.len = Len(input)
             /\ \A i \in 1..Len(input) : self.buf[i] = input[i]
        ELSE self.tag = "Heap" /\ self.v = input

\* C10 witness: an array of K = N >= 2 distinct elements was converted
C10_Witness ==
    /\ ctor = "from_array"
    /\ ops = <<>>
    /\ N >= 2
    /\ Len(input) = N
    /\ input[1] # input[2]
    /\ self.tag = "Stack"
    /\ self.len = N

\* C11: a container built by from([T; K]) and then only popped returns, at
\* pop number j <= K, the input element of position K - j (reverse input
\* order), and None at pop number K + 1.
C11_RoundTrip ==
    (/\ ctor = "from_array"
     /\ ops # <<>>
     /\ \A i \in 1..Len(ops) : ops[i] = "pop"
     /\ Len(ops) <= Len(input) + 1)
        => ret = IF Len(ops) <= Len(input)
                 THEN Some(input[Len(input) - Len(ops) + 1])
                 ELSE None

\* C11 witness: an inline array of K >= 2 distinct elements was popped K + 1
\* times
C11_Witness ==
    /\ ctor = "from_array"
    /\ Len(input) >= 2
    /\ input[1] # input[2]
    /\ Len(input) <= N
    /\ Len(ops) = Len(input) + 1
    /\ \A i \in 1..Len(ops) : ops[i] = "pop"
    /\ ret = None

\* C12: in every reachable state a container in the Stack variant has
\* 0 <= len <= N.
C12_LenWithinCapacity ==
    self.tag = "Stack" => (self.len >= 0 /\ self.len <= N)

\* C12 witness: pushes filled the inline buffer of a container of capacity
\* N >= 1
C12_Witness ==
    /\ self.tag = "Stack"
    /\ N >= 1
    /\ self.len = N
    /\ ops # <<>>
    /\ Last(ops) = "push"

\* C16: on a container created by new(), len() is the length of the abstract
\* stack run on the same push / pop / clear calls, and each pop() returns the
\* abstract stack's top, None when it is empty, in both variants.
C16_RefinesStack ==
    /\ [](ctor = "new" => len(self) = Len(model))
    /\ [][(ctor = "new" /\ IsOp("pop")) =>
             ret' = IF model = <<>> THEN None ELSE Some(Last(model))]_vars

\* C16 witness: a pop() on a Heap container returned the value pushed last,
\* which differs from the one pushed first
C16_Witness ==
    /\ ctor = "new"
    /\ self.tag = "Heap"
    /\ ops # <<>>
    /\ Last(ops) = "pop"
    /\ model # <<>>
    /\ ret # None
    /\ ret # Some(model[1])

\* C19: in every reachable state a container in the Stack variant holds the
\* default value in every slot of index in [len, N); pop leaves the default
\* in the slot it vacates.
C19_FillerIsDefault ==
    self.tag = "Stack" =>
        \A i \in (self.len + 1)..N : self.buf[i] = Default

\* C19 witness: a pop() took a value other than the default out of the
\* inline buffer
C19_Witness ==
    /\ self.tag = "Stack"
    /\ ops # <<>>
    /\ Last(ops) = "pop"
    /\ ret # None
    /\ ret # Some(Default)

\* the step is a call of the RingBuffer method called name
IsRbCall(name) == rop' = name /\ rn' = rn + 1

\* C13: in every reachable state of a RingBuffer of size >= 1, a write()
\* returns true if and only if has_room() is true in the state it is called
\* in.
C13_HasRoomIffWriteSucceeds ==
    [][IsRbCall("write") => (rret' = has_room(queue))]_vars

\* C13 witness: a write() was refused by a full queue of size 3
C13_Witness ==
    /\ rop = "write"
    /\ rret = FALSE
    /\ Len(queue.data) = 3
    /\ Len(pending) = 2

\* C14: peek() returns what read() would return in the same state (None on
\* an empty queue), leaves start, end and data as they were, and a read()
\* that follows it returns the value peek() returned.
C14_PeekIsReadWithoutRemoval ==
    /\ [](peek(queue).ret = read(queue).ret)
    /\ [][IsRbCall("peek") => (queue' = queue /\ rret' = read(queue).ret)]_vars
    /\ [][(rop = "peek" /\ IsRbCall("read")) => rret' = rret]_vars

\* C14 witness: a peek() on a queue holding two bytes, whose start earlier
\* reads had moved, returned the byte 1
C14_Witness ==
    /\ rop = "peek"
    /\ rret = Some(1)
    /\ Len(pending) = 2
    /\ queue.start # 0

\* C17: a write() that returns false leaves start and end as they were and
\* leaves unchanged the values that the following read() calls return.
C17_FailedWriteKeepsQueue ==
    [][(IsRbCall("write") /\ rret' = FALSE) =>
          /\ queue'.start = queue.start
          /\ queue'.end = queue.end
          /\ next(queue', Len(queue'.data)) = next(queue, Len(queue.data))]_vars

\* C17 witness: in a buffer of size 2 the second write() was refused and
\* stored its byte in the free slot data[end]
C17_Witness ==
    /\ rop = "write"
    /\ rret = FALSE
    /\ rn = 2
    /\ Len(queue.data) = 2
    /\ queue.data[queue.end + 1] # 0
    /\ pending # <<>>

\* C18: every read() returns the oldest byte whose write() returned true and
\* that no read() returned yet, and None exactly when there is none; the
\* reads still to come return the bytes written and not yet read, in order.
C18_FIFO ==
    /\ [][IsRbCall("read") =>
             rret' = IF pending = <<>> THEN None ELSE Some(Head(pending))]_vars
    /\ [](Len(queue.data) >= 1 => next(queue, Len(queue.data)) = pending)

\* C18 witness: a read() returned a byte and wrapped start around to 0,
\* with another byte still queued
C18_Witness ==
    /\ rop = "read"
    /\ rret # None
    /\ Len(queue.data) >= 2
    /\ queue.start = 0
    /\ rn >= 4
    /\ pending # <<>>

RECURSIVE DivByZeroReached(_, _, _)
RECURSIVE DivByZeroReachedIn(_, _, _, _)
\* the evaluation of e, in the order eval follows and as far as it goes,
\* comes to a Div whose divisor evaluates to 0
DivByZeroReached(e, v, chk) ==
    IF e.tag \in {"Const", "Var"} THEN FALSE
    ELSE IF e.tag \in {"Add", "Sub", "Mul"}
    THEN \/ DivByZeroReached(e.lhs, v, chk)
         \/ /\ IsSome(eval(e.lhs, v, chk))
            /\ DivByZeroReached(e.rhs, v, chk)
    ELSE IF e.tag = "Div"
    THEN \/ DivByZeroReached(e.rhs, v, chk)
         \/ /\ IsSome(eval(e.rhs, v, chk))
            /\ \/ eval(e.rhs, v, chk).opt[1] = 0
               \/ DivByZeroReached(e.lhs, v, chk)
    ELSE DivByZeroReachedIn(e.exprs, 0, v, chk)

\* the same for the elements of a Summation, from the accumulator acc
DivByZeroReachedIn(exprs, acc, v, chk) ==
    IF exprs = <<>> THEN FALSE
    ELSE \/ DivByZeroReached(Head(exprs), v, chk)
         \/ /\ IsSome(eval(Head(exprs), v, chk))
            /\ IsSome(arith(acc + eval(Head(exprs), v, chk).opt[1], chk))
            /\ DivByZeroReachedIn(Tail(exprs),
                                  arith(acc + eval(Head(exprs), v, chk).opt[1], chk).opt[1],
                                  v, chk)

\* eval has been called
Evaluated == result # NotCalled

\* C15: eval returns None exactly when the evaluation reaches a Div whose
\* divisor evaluates to 0, whatever Add, Sub, Mul, Div or Summation encloses
\* it, and returns Some(value) for an expression in which no evaluated
\* divisor is 0.
C15_NoneIffDivByZero ==
    Evaluated =>
        IF DivByZeroReached(expr, var, checks)
        THEN result = Returns(None)
        ELSE IsSome(result)

====
